---- MODULE Spec2Model ----
(***************************************************************************)
(* Header acceptance and direct fetch of bitcoinxt,                        *)
(* src/blockheaderprocessor.cpp: DefaultHeaderProcessor::operator(),       *)
(* acceptHeaders, findMissingBlocks, hasEqualOrMoreWork, suggestDownload   *)
(* and requestConnectHeaders.                                              *)
(*                                                                         *)
(* Block hashes are integers.  The headers that exist form a fixed tree:   *)
(*   main line  0 .. MainLen            (0 is the genesis block)           *)
(*   fork line  MainLen+1 .. MainLen+ForkLen, branching off the genesis    *)
(*   three headers that fail validation, children of block InitHeight+1    *)
(* A header's hashPrevBlock is fixed by its hash (Parent).                 *)
(***************************************************************************)
EXTENDS Integers, Sequences, FiniteSets, TLC

\* ------------------------------------------------------------- bounds
InitHeight == 2      \* height of the active tip at start
MainNew == 2         \* main-line headers above InitHeight that peers may send
ForkNew == 1         \* fork headers beyond the walk limit that peers may send
MaxBatch == 2        \* longest headers message
MaxData == 2         \* most block bodies received in a run
MaxUnconnecting == 1 \* most counted unconnecting headers in a row under Spec

\* ------------------------------------------------- program constants
MAX_UNCONNECTING_HEADERS == 10
WALK_LIMIT == 144
\* main.h sets the transit cap; the model takes a small one
MAX_BLOCKS_IN_TRANSIT_PER_PEER == 2
\* nullptr / uint256()
NoHash == -1

\* most in-flight marks at a time
MaxInFlight == MAX_BLOCKS_IN_TRANSIT_PER_PEER + 1
\* iterations of the walk evaluated in one recursion
WalkChunk == WALK_LIMIT \div 12

Peers == {1, 2}

\* ----------------------------------------------------- the header tree
MainLen == InitHeight + MainNew
ForkLen == WALK_LIMIT + 1 + ForkNew
ForkOff == MainLen
BadOff == MainLen + ForkLen
MainHashes == 0 .. MainLen
ForkHashes == (ForkOff + 1) .. (ForkOff + ForkLen)
BadHashes == (BadOff + 1) .. (BadOff + 3)
Hashes == MainHashes \cup ForkHashes \cup BadHashes

\* CheckBlockHeader / ContextualCheckBlockHeader verdicts of the three bad headers
BadPow == BadOff + 1    \* state.DoS(50, ...): invalid, penalty 50
BadTime == BadOff + 2   \* state.Invalid(...): invalid, penalty 0
BadErr == BadOff + 3    \* state.Error(...): fails, not flagged invalid

\* CBlockHeader::hashPrevBlock, CBlockIndex::pprev
Parent(h) ==
    IF h = 0 THEN NoHash
    ELSE IF h = ForkOff + 1 THEN 0
    ELSE IF h \in BadHashes THEN InitHeight + 1
    ELSE h - 1

\* CBlockIndex::nHeight
Height(h) ==
    IF h \in MainHashes THEN h
    ELSE IF h \in ForkHashes THEN h - ForkOff
    ELSE InitHeight + 2

\* CBlockIndex::nChainWork, every header carrying one unit of work
nChainWork(h) == Height(h) + 1

\* a CBlockHeader as received
Header(h) == [hash |-> h, hashPrevBlock |-> Parent(h)]

VARIABLES
    mapBlockIndex,        \* hashes of the headers in the block index
    haveData,             \* nodes with BLOCK_HAVE_DATA
    failed,               \* nodes with a BLOCK_FAILED flag (not BLOCK_VALID_TREE)
    tip,                  \* chainActive.Tip()
    pindexBestHeader,     \* the known header with most work
    inFlight,             \* InFlightIndex: set of <<hash, peer>>
    unconnectingHeaders,  \* NodeState::unconnectingHeaders, per peer
    mainTop,              \* the last header of the main line that exists
    forkTop,              \* the last header of the fork line that exists
    lastCall,             \* what the latest handler invocation did
    sinceAccept,          \* per peer: counted unconnecting events since the last
                          \* headers invocation that did not abort
    reportsSinceAccept,   \* per peer: unconnecting-headers reports since then
    pindexBestKnownBlock  \* NodeState::pindexBestKnownBlock, per peer

vars == <<mapBlockIndex, haveData, failed, tip, pindexBestHeader, inFlight,
          unconnectingHeaders, mainTop, forkTop, lastCall, sinceAccept,
          reportsSinceAccept, pindexBestKnownBlock>>

\* one outbound effect of a handler, in the order the handler made it
Eff(e, peer, hash, pts, txt, inv) ==
    [e |-> e, peer |-> peer, hash |-> hash, pts |-> pts, txt |-> txt, inv |-> inv]

Misbehaving(peer, howmuch, reason) ==
    Eff("Misbehaving", peer, NoHash, howmuch, reason, <<>>)

UpdateBlockAvailability(peer, hash) ==
    Eff("UpdateBlockAvailability", peer, hash, 0, "", <<>>)

\* PushMessage(GETHEADERS, chainActive.GetLocator(pindex), uint256())
PushGetHeaders(peer, pindex) ==
    Eff("GETHEADERS", peer, pindex, 0, "", <<>>)

PushGetData(peer, toGet) ==
    Eff("GETDATA", peer, NoHash, 0, "", toGet)

MarkedInFlight(peer, hash) ==
    Eff("markAsInFlight", peer, hash, 0, "", <<>>)

CheckBlockIndexEff ==
    Eff("checkBlockIndex", NoHash, NoHash, 0, "", <<>>)

NoCall ==
    [op |-> "none", peer |-> NoHash, headers |-> <<>>, peerSentMax |-> FALSE,
     maybeAnnouncement |-> FALSE, bumpUnconnecting |-> FALSE,
     threw |-> "", ret |-> NoHash, retBool |-> FALSE,
     submitted |-> <<>>, accepted |-> <<>>, effects |-> <<>>, walked |-> FALSE,
     walkCount |-> 0, walkDone |-> FALSE,
     toFetch |-> <<>>, asked |-> <<>>, toGet |-> <<>>, marked |-> <<>>,
     indexBefore |-> {}, inFlightBefore |-> {}, unconnectingBefore |-> <<>>]

\* ------------------------------------------------------- ChainIndex
\* AcceptBlockHeader(header, state, &pindexLast): ret is its return value,
\* invalid/nDoS are state.IsInvalid(nDoS), set tells whether *ppindex was
\* assigned (to pindex), add whether the header entered the block index.
AcceptResult(ret, invalid, nDoS, set, pindex, add) ==
    [ret |-> ret, invalid |-> invalid, nDoS |-> nDoS, set |-> set,
     pindex |-> pindex, add |-> add]

AcceptBlockHeader(header, index) ==
    IF header.hash \in index
    THEN IF header.hash \in failed
         THEN AcceptResult(FALSE, TRUE, 0, TRUE, header.hash, FALSE)
         ELSE AcceptResult(TRUE, FALSE, 0, TRUE, header.hash, FALSE)
    ELSE IF header.hash = BadPow
    THEN AcceptResult(FALSE, TRUE, 50, FALSE, NoHash, FALSE)
    ELSE IF header.hash = BadTime
    THEN AcceptResult(FALSE, TRUE, 0, FALSE, NoHash, FALSE)
    ELSE IF header.hash = BadErr
    THEN AcceptResult(FALSE, FALSE, 0, FALSE, NoHash, FALSE)
    ELSE IF header.hashPrevBlock \notin index
    THEN AcceptResult(FALSE, TRUE, 10, FALSE, NoHash, FALSE)
    ELSE IF header.hashPrevBlock \in failed
    THEN AcceptResult(FALSE, TRUE, 100, FALSE, NoHash, FALSE)
    ELSE AcceptResult(TRUE, FALSE, 0, TRUE, header.hash, TRUE)

\* AddToBlockIndex keeps pindexBestHeader at the header with most work
BestHeaderAfter(best, new) ==
    IF best = NoHash \/ nChainWork(best) < nChainWork(new) THEN new ELSE best

\* a test of the header's own hash instead of its predecessor's
headerKnown(h) == h.hash \in mapBlockIndex

\* mapBlockIndex.find(h.hashPrevBlock) != mapBlockIndex.end()
headerConnects(h) == h.hashPrevBlock \in mapBlockIndex

\* CBlockIndex::GetAncestor(height), by the shape of the header tree
AncestorAt(h, height) ==
    IF h = NoHash \/ height < 0 \/ Height(h) < height THEN NoHash
    ELSE IF Height(h) = height THEN h
    ELSE IF h \in ForkHashes /\ height > 0 THEN ForkOff + height
    ELSE height

\* chainActive.Contains(pindex): the chain's node at pindex's height is pindex
Contains(pindex) == AncestorAt(tip, Height(pindex)) = pindex

\* InFlightIndex::isInFlight
isInFlight(hash) == \E p \in Peers : <<hash, p>> \in inFlight

\* --------------------------------------------------- acceptHeaders
\* The state of the loop of acceptHeaders: the block index as changed so far,
\* pindexLast, the error thrown (if any), and what was done in order.
AcceptStart ==
    [index |-> mapBlockIndex, best |-> pindexBestHeader, pindexLast |-> NoHash,
     threw |-> "", effects |-> <<>>, submitted |-> <<>>, accepted |-> <<>>]

\* a wrong continuity check: the header's own hash is compared
NonContinuousByHash(header, pindexLast) ==
    pindexLast # NoHash /\ header.hash # pindexLast

\* a missing continuity check
NonContinuousNever(header, pindexLast) == FALSE

\* the continuity check of one iteration
NonContinuous(header, pindexLast) ==
    pindexLast # NoHash /\ header.hashPrevBlock # pindexLast

\* a fixed penalty instead of the one the validation state holds
InvalidHeaderPenaltyFixed(nDoS) == 20

\* the penalty acceptHeaders reports for an invalid header
InvalidHeaderPenalty(nDoS) == nDoS

\* every failure taken as a rejection
IsInvalidAlways(r) == TRUE

\* state.IsInvalid(nDoS)
IsInvalid(r) == r.invalid

\* one iteration of the loop over the headers
AcceptOne(pfrom, header, st) ==
    IF NonContinuous(header, st.pindexLast)
    THEN [st EXCEPT
            !.effects = Append(@, Misbehaving(pfrom, 20, "non-continuous header sequence")),
            !.threw = "non-continuous headers sequence"]
    ELSE LET r == AcceptBlockHeader(header, st.index)
             st1 == [st EXCEPT
                       !.submitted = Append(@, header.hash),
                       !.index = IF r.add THEN @ \cup {header.hash} ELSE @,
                       !.best = IF r.add THEN BestHeaderAfter(@, header.hash) ELSE @,
                       !.pindexLast = IF r.set THEN r.pindex ELSE @,
                       !.accepted = IF r.ret THEN Append(@, header.hash) ELSE @]
         IN  IF r.ret THEN st1
             ELSE IF IsInvalid(r)
             THEN [st1 EXCEPT
                     !.effects = IF r.nDoS > 0
                                 THEN Append(@, Misbehaving(pfrom,
                                          InvalidHeaderPenalty(r.nDoS), "invalid header"))
                                 ELSE @,
                     !.threw = "invalid header received"]
             ELSE st1

RECURSIVE AcceptLoop(_, _, _, _)
AcceptLoop(pfrom, headers, i, st) ==
    IF i > Len(headers) \/ st.threw # "" THEN st
    ELSE AcceptLoop(pfrom, headers, i + 1, AcceptOne(pfrom, headers[i], st))

acceptHeaders(pfrom, headers) == AcceptLoop(pfrom, headers, 1, AcceptStart)

\* ------------------------------------------------ findMissingBlocks
\* a wrong trim: pop_back instead of pop_front
WalkNodePopBack(walk, toFetch) ==
    IF walk \in haveData THEN toFetch
    ELSE IF isInFlight(walk) THEN toFetch
    ELSE LET pushed == Append(toFetch, walk)
         IN  IF Len(pushed) > MAX_BLOCKS_IN_TRANSIT_PER_PEER
             THEN SubSeq(pushed, 1, Len(pushed) - 1)
             ELSE pushed

\* a walk that does not skip the blocks in flight
WalkNodeIgnoringInFlight(walk, toFetch) ==
    IF walk \in haveData THEN toFetch
    ELSE LET pushed == Append(toFetch, walk)
         IN  IF Len(pushed) > MAX_BLOCKS_IN_TRANSIT_PER_PEER
             THEN Tail(pushed)
             ELSE pushed

\* a walk that does not skip the blocks that have data
WalkNodeIgnoringData(walk, toFetch) ==
    IF isInFlight(walk) THEN toFetch
    ELSE LET pushed == Append(toFetch, walk)
         IN  IF Len(pushed) > MAX_BLOCKS_IN_TRANSIT_PER_PEER
             THEN Tail(pushed)
             ELSE pushed

\* a deque filled at the other end: push_front, and pop_back over the cap
WalkNodePushFront(walk, toFetch) ==
    IF walk \in haveData THEN toFetch
    ELSE IF isInFlight(walk) THEN toFetch
    ELSE LET pushed == <<walk>> \o toFetch
         IN  IF Len(pushed) > MAX_BLOCKS_IN_TRANSIT_PER_PEER
             THEN SubSeq(pushed, 1, Len(pushed) - 1)
             ELSE pushed

\* the body of the walk's loop for a node off the active chain: skip a node
\* that has data or is in flight, else push_back, and pop_front over the cap
WalkNode(walk, toFetch) ==
    IF walk \in haveData THEN toFetch
    ELSE IF isInFlight(walk) THEN toFetch
    ELSE LET pushed == Append(toFetch, walk)
         IN  IF Len(pushed) > MAX_BLOCKS_IN_TRANSIT_PER_PEER
             THEN Tail(pushed)
             ELSE pushed

\* a depth limit that is one node too shallow
OverWalkLimitEarly(walked) == walked >= WALK_LIMIT

\* a depth limit that is one node too deep
OverWalkLimitLate(walked) == walked > WALK_LIMIT + 1

\* ++walked > WALK_LIMIT
OverWalkLimit(walked) == walked > WALK_LIMIT

\* The state of the walk's loop: the node looked at, the count of nodes
\* looked at before it, the deque, and whether the function has returned.
WalkStart(pindexLast) ==
    [walk |-> pindexLast, walked |-> 0, toFetch |-> <<>>, done |-> FALSE]

\* one iteration of do { ... } while ((walk = walk->pprev))
WalkStep(st) ==
    IF st.done THEN st
    ELSE IF OverWalkLimit(st.walked + 1)
    THEN [st EXCEPT !.walked = @ + 1, !.toFetch = <<>>, !.done = TRUE]
    ELSE IF Contains(st.walk)
    THEN [st EXCEPT !.walked = @ + 1, !.done = TRUE]
    ELSE [walk |-> Parent(st.walk), walked |-> st.walked + 1,
          toFetch |-> WalkNode(st.walk, st.toFetch),
          done |-> Parent(st.walk) = NoHash]

\* up to n iterations
RECURSIVE WalkRun(_, _)
WalkRun(st, n) ==
    IF n = 0 \/ st.done THEN st
    ELSE WalkRun(WalkStep(st), n - 1)

\* up to n iterations, WalkChunk at a time
RECURSIVE WalkSteps(_, _)
WalkSteps(st, n) ==
    IF n <= 0 \/ st.done THEN st
    ELSE WalkSteps(WalkRun(st, WalkChunk), n - WalkChunk)

\* no branch of the header tree is longer than this
MaxDepth == MainLen + ForkLen + 2

WalkEnd(pindexLast) == WalkSteps(WalkStart(pindexLast), MaxDepth)

\* a vector built from the deque back to front
findMissingBlocksReversed(pindexLast) ==
    [WalkEnd(pindexLast) EXCEPT
        !.toFetch = [i \in 1 .. Len(@) |-> @[Len(@) + 1 - i]]]

\* the walk at its return: toFetch is the vector returned, walked the counter
findMissingBlocks(pindexLast) == WalkEnd(pindexLast)

\* CBlockIndex::IsValid(BLOCK_VALID_TREE)
IsValidTree(pindex) == pindex \notin failed

\* a work gate that forgets the comparison of work
hasAnyWork(pindexLast) == IsValidTree(pindexLast)

hasEqualOrMoreWork(pindexLast) ==
    IsValidTree(pindexLast) /\ nChainWork(tip) <= nChainWork(pindexLast)

\* -------------------------------------------------- suggestDownload
\* BlockAnnounceReceiver::onBlockAnnounced(toGet) under the admission policy
\* admit (the set of hashes it would admit): an admitted hash joins toGet
onBlockAnnounced(hash, admit, toGet) ==
    IF hash \in admit
    THEN [ret |-> TRUE, toGet |-> Append(toGet, hash)]
    ELSE [ret |-> FALSE, toGet |-> toGet]

\* a loop that stops at the first admitted block
StopSuggestingOnAdmit(ret) == ret

\* if (!ann.onBlockAnnounced(toGet)) break;
StopSuggesting(ret) == ~ret

\* an iteration that forgets to reverse the window
ForwardAt(toFetch, i) == toFetch[i]

\* the i-th element of boost::adaptors::reverse(toFetch)
ReverseAt(toFetch, i) == toFetch[Len(toFetch) + 1 - i]

SuggestStart == [toGet |-> <<>>, marked |-> <<>>, asked |-> <<>>]

RECURSIVE SuggestLoop(_, _, _, _)
SuggestLoop(toFetch, i, admit, st) ==
    IF i > Len(toFetch) THEN st
    ELSE LET b == ReverseAt(toFetch, i)
             ann == onBlockAnnounced(b, admit, st.toGet)
             st1 == [st EXCEPT !.toGet = ann.toGet, !.asked = Append(@, b)]
         IN  IF StopSuggesting(ann.ret) THEN st1
             ELSE SuggestLoop(toFetch, i + 1, admit,
                              [st1 EXCEPT !.marked = Append(@, b)])

suggestDownload(toFetch, admit) == SuggestLoop(toFetch, 1, admit, SuggestStart)

RECURSIVE MarkEffects(_, _, _)
MarkEffects(pfrom, marked, i) ==
    IF i > Len(marked) THEN <<>>
    ELSE <<MarkedInFlight(pfrom, marked[i])>> \o MarkEffects(pfrom, marked, i + 1)

SeqToSet(s) == {s[i] : i \in 1 .. Len(s)}

\* ------------------------------------------------------ operator()
\* what UpdateBlockAvailability(peer, hash) leaves in the peer's
\* pindexBestKnownBlock: a hash in the block index replaces a best known block
\* of no more work; an unknown hash is only remembered for later
AvailabilityAfter(known, peer, hash, index) ==
    IF hash \in index
          /\ (known[peer] = NoHash \/ nChainWork(hash) >= nChainWork(known[peer]))
    THEN [known EXCEPT ![peer] = hash]
    ELSE known

\* a counter that is never reset
ResetUnconnectingNever(counters, pfrom) == counters

\* NodeStatePtr(pfrom->id)->unconnectingHeaders = 0
ResetUnconnecting(counters, pfrom) == [counters EXCEPT ![pfrom] = 0]

\* a continuation request that forgets peerSentMax
WantsMoreHeadersAlways(peerSentMax, pindexLast) == pindexLast # NoHash

\* peerSentMax && pindexLast
WantsMoreHeaders(peerSentMax, pindexLast) == peerSentMax /\ pindexLast # NoHash

\* pindexLast && maybeAnnouncement && hasEqualOrMoreWork(pindexLast)
WantsDirectFetch(pindexLast, maybeAnnouncement) ==
    pindexLast # NoHash /\ maybeAnnouncement /\ hasEqualOrMoreWork(pindexLast)

\* an exception that is swallowed
AbortedNever(acc) == FALSE

\* acceptHeaders threw: the exception leaves operator() at once
Aborted(acc) == acc.threw # ""

\* the admission policies that differ on the window: the sets of its hashes
\* that the policy admits
AdmitChoices(toFetch) == SUBSET SeqToSet(toFetch)

Headers(pfrom, headers, peerSentMax, maybeAnnouncement) ==
    LET acc == acceptHeaders(pfrom, headers)
        call == [NoCall EXCEPT
                   !.op = "headers", !.peer = pfrom, !.headers = headers,
                   !.peerSentMax = peerSentMax,
                   !.maybeAnnouncement = maybeAnnouncement,
                   !.threw = acc.threw, !.submitted = acc.submitted,
                   !.accepted = acc.accepted, !.indexBefore = mapBlockIndex,
                   !.inFlightBefore = inFlight,
                   !.unconnectingBefore = unconnectingHeaders]
    IN  /\ lastCall = NoCall
        /\ mapBlockIndex' = acc.index
        /\ pindexBestHeader' = acc.best
        /\ UNCHANGED <<haveData, failed, tip, mainTop, forkTop>>
        /\ IF Aborted(acc)
           THEN /\ lastCall' = [call EXCEPT !.effects = acc.effects]
                /\ UNCHANGED <<inFlight, unconnectingHeaders, sinceAccept,
                               reportsSinceAccept, pindexBestKnownBlock>>
           ELSE LET pindexLast == acc.pindexLast
                    fetch == WantsDirectFetch(pindexLast, maybeAnnouncement)
                    walk == IF fetch THEN findMissingBlocks(pindexLast)
                            ELSE WalkStart(NoHash)
                    toFetch == walk.toFetch
                IN  \E admit \in AdmitChoices(toFetch) :
                LET sug == IF fetch THEN suggestDownload(toFetch, admit)
                           ELSE SuggestStart
                    effects ==
                        acc.effects
                        \o (IF pindexLast # NoHash
                            THEN <<UpdateBlockAvailability(pfrom, pindexLast)>>
                            ELSE <<>>)
                        \o (IF WantsMoreHeaders(peerSentMax, pindexLast)
                            THEN <<PushGetHeaders(pfrom, pindexLast)>>
                            ELSE <<>>)
                        \o MarkEffects(pfrom, sug.marked, 1)
                        \o (IF sug.toGet # <<>>
                            THEN <<PushGetData(pfrom, sug.toGet)>>
                            ELSE <<>>)
                        \o <<CheckBlockIndexEff>>
                IN  /\ unconnectingHeaders' =
                            ResetUnconnecting(unconnectingHeaders, pfrom)
                    /\ inFlight' = inFlight \cup
                            {<<h, pfrom>> : h \in SeqToSet(sug.marked)}
                    /\ Cardinality(inFlight') <= MaxInFlight
                    /\ sinceAccept' = [sinceAccept EXCEPT ![pfrom] = 0]
                    /\ reportsSinceAccept' = [reportsSinceAccept EXCEPT ![pfrom] = 0]
                    /\ pindexBestKnownBlock' =
                            IF pindexLast # NoHash
                            THEN AvailabilityAfter(pindexBestKnownBlock, pfrom,
                                                   pindexLast, acc.index)
                            ELSE pindexBestKnownBlock
                    /\ lastCall' = [call EXCEPT
                                      !.ret = pindexLast, !.effects = effects,
                                      !.walked = fetch, !.toFetch = toFetch,
                                      !.walkCount = walk.walked,
                                      !.walkDone = walk.done,
                                      !.asked = sug.asked, !.toGet = sug.toGet,
                                      !.marked = sug.marked]

\* ------------------------------------------- requestConnectHeaders
\* ++NodeStatePtr(from.id)->unconnectingHeaders
BumpUnconnecting(count) == count + 1

\* a report at every event from the limit on
AtUnconnectingLimitOrAbove(unconnecting) ==
    unconnecting >= MAX_UNCONNECTING_HEADERS

\* unconnecting % MAX_UNCONNECTING_HEADERS == 0
AtUnconnectingLimit(unconnecting) == unconnecting % MAX_UNCONNECTING_HEADERS = 0

\* a locator built from the best block the peer is known to have
ConnectLocatorFromPeer(from) == pindexBestKnownBlock[from]

\* chainActive.GetLocator(pindexBestHeader): the node's best header
ConnectLocatorFrom(from) == pindexBestHeader

\* limit caps the counter so that the state space stays finite
requestConnectHeaders(from, h, bumpUnconnecting, limit) ==
    LET call == [NoCall EXCEPT !.op = "connect", !.peer = from,
                               !.headers = <<h>>,
                               !.bumpUnconnecting = bumpUnconnecting,
                               !.indexBefore = mapBlockIndex,
                               !.inFlightBefore = inFlight,
                   !.unconnectingBefore = unconnectingHeaders]
    IN  /\ lastCall = NoCall
        /\ UNCHANGED <<mapBlockIndex, haveData, failed, tip, pindexBestHeader,
                       inFlight, mainTop, forkTop>>
        /\ IF headerConnects(h)
           THEN /\ lastCall' = [call EXCEPT !.retBool = FALSE]
                /\ UNCHANGED <<unconnectingHeaders, sinceAccept,
                               reportsSinceAccept, pindexBestKnownBlock>>
           ELSE LET sent == <<UpdateBlockAvailability(from, h.hash),
                              PushGetHeaders(from, ConnectLocatorFrom(from))>>
                    unconnecting == BumpUnconnecting(unconnectingHeaders[from])
                    report == bumpUnconnecting /\ AtUnconnectingLimit(unconnecting)
                IN  /\ bumpUnconnecting => unconnectingHeaders[from] < limit
                    /\ pindexBestKnownBlock' =
                            AvailabilityAfter(pindexBestKnownBlock, from, h.hash,
                                              mapBlockIndex)
                    /\ unconnectingHeaders' =
                            IF bumpUnconnecting
                            THEN [unconnectingHeaders EXCEPT ![from] = unconnecting]
                            ELSE unconnectingHeaders
                    /\ sinceAccept' =
                            IF bumpUnconnecting
                            THEN [sinceAccept EXCEPT ![from] = @ + 1]
                            ELSE sinceAccept
                    /\ reportsSinceAccept' =
                            IF report
                            THEN [reportsSinceAccept EXCEPT ![from] = @ + 1]
                            ELSE reportsSinceAccept
                    /\ lastCall' = [call EXCEPT
                            !.retBool = TRUE,
                            !.effects = IF report
                                        THEN sent \o <<Misbehaving(from, 20,
                                                        "unconnecting-headers")>>
                                        ELSE sent]

\* ------------------------------------------------- the environment
\* ActivateBestChain: the tip moves to the node with most work all of whose
\* ancestors have data and none of which failed
RECURSIVE Connectable(_, _)
Connectable(h, data) ==
    /\ h \in data
    /\ h \notin failed
    /\ (Parent(h) = NoHash \/ Connectable(Parent(h), data))

ActivateBestChain(data) ==
    LET better == {h \in mapBlockIndex :
                      /\ nChainWork(h) > nChainWork(tip)
                      /\ Connectable(h, data)}
    IN  IF better = {} THEN tip
        ELSE CHOOSE h \in better : \A g \in better :
                \/ nChainWork(g) < nChainWork(h)
                \/ (nChainWork(g) = nChainWork(h) /\ h <= g)

Unmark(hash) == {m \in inFlight : m[1] # hash}

\* the body of a block in flight arrives and is stored
BlockReceived(hash) ==
    /\ lastCall = NoCall
    /\ isInFlight(hash)
    /\ Cardinality(haveData) < InitHeight + 1 + MaxData
    /\ haveData' = haveData \cup {hash}
    /\ inFlight' = Unmark(hash)
    /\ tip' = ActivateBestChain(haveData')
    /\ UNCHANGED <<mapBlockIndex, failed, pindexBestHeader, unconnectingHeaders,
                   mainTop, forkTop, lastCall, sinceAccept, reportsSinceAccept,
                   pindexBestKnownBlock>>

\* the body of a block in flight arrives and fails validation: the node and
\* its known descendants are flagged
BlockFailed(hash) ==
    /\ lastCall = NoCall
    /\ isInFlight(hash)
    /\ failed = {}
    /\ failed' = {d \in mapBlockIndex : AncestorAt(d, Height(hash)) = hash}
    /\ inFlight' = {m \in inFlight : m[1] \notin failed'}
    /\ UNCHANGED <<mapBlockIndex, haveData, tip, pindexBestHeader,
                   unconnectingHeaders, mainTop, forkTop, lastCall,
                   sinceAccept, reportsSinceAccept, pindexBestKnownBlock>>

\* the request for a block in flight times out
InFlightTimeout(hash) ==
    /\ lastCall = NoCall
    /\ isInFlight(hash)
    /\ inFlight' = Unmark(hash)
    /\ UNCHANGED <<mapBlockIndex, haveData, failed, tip, pindexBestHeader,
                   unconnectingHeaders, mainTop, forkTop, lastCall,
                   sinceAccept, reportsSinceAccept, pindexBestKnownBlock>>

\* the handler has returned to the message loop: its record is cleared
HandlerReturns ==
    /\ lastCall # NoCall
    /\ lastCall' = NoCall
    /\ UNCHANGED <<mapBlockIndex, haveData, failed, tip, pindexBestHeader,
                   inFlight, unconnectingHeaders, mainTop, forkTop,
                   sinceAccept, reportsSinceAccept, pindexBestKnownBlock>>

\* ----------------------------------------------------------- inputs
\* the headers that exist in this run
Exists(h) ==
    /\ h \in Hashes
    /\ h \in MainHashes => h <= mainTop
    /\ h \in ForkHashes => h <= forkTop
    /\ h \in BadHashes => Parent(h) <= mainTop

Children(h) == {c \in {h + 1, ForkOff + 1} \cup BadHashes : Exists(c) /\ Parent(c) = h}

Leaves == {h \in mapBlockIndex : Children(h) \cap mapBlockIndex = {}}

Kids(S) == UNION {Children(h) : h \in S}

\* the headers a peer may send first: a known header without known child, or
\* an unknown one whose parent or grandparent is known
Offer ==
    LET kids == Kids(mapBlockIndex) \ mapBlockIndex
    IN  Leaves \cup kids \cup Kids(kids)

\* what may follow header h in a message: its children (a continuous
\* sequence), or h again or a known header (a break in the sequence)
Follows(h, leaves) == Children(h) \cup {h} \cup leaves

RECURSIVE BatchesFrom(_, _, _)
BatchesFrom(hs, n, leaves) ==
    IF n = 0 THEN {hs}
    ELSE {hs} \cup UNION {BatchesFrom(Append(hs, Header(h)), n - 1, leaves) :
                             h \in Follows(hs[Len(hs)].hash, leaves)}

BatchesUpTo(n) ==
    LET leaves == Leaves
    IN  {<<>>} \cup UNION {BatchesFrom(<<Header(h)>>, n - 1, leaves) :
                              h \in Offer}

Batches == BatchesUpTo(MaxBatch)

\* ------------------------------------------------------------ specs
\* The node has the blocks 0 .. InitHeight and the headers of the first
\* `fork` nodes of the fork line; peers may send `main` more headers of the
\* main line and ForkNew more of the fork line.
InitWith(main, fork) ==
    /\ mapBlockIndex = (0 .. InitHeight) \cup ((ForkOff + 1) .. (ForkOff + fork))
    /\ haveData = 0 .. InitHeight
    /\ failed = {}
    /\ tip = InitHeight
    /\ pindexBestHeader = IF fork > InitHeight THEN ForkOff + fork ELSE InitHeight
    /\ inFlight = {}
    /\ unconnectingHeaders = [p \in Peers |-> 0]
    /\ mainTop = InitHeight + main
    /\ forkTop = ForkOff + fork + ForkNew
    /\ lastCall = NoCall
    /\ sinceAccept = [p \in Peers |-> 0]
    /\ reportsSinceAccept = [p \in Peers |-> 0]
    /\ pindexBestKnownBlock = [p \in Peers |-> NoHash]

HeadersOf(peers, announcements, batches) ==
    /\ lastCall = NoCall
    /\ \E pfrom \in peers, headers \in batches, peerSentMax \in BOOLEAN,
          maybeAnnouncement \in announcements :
            Headers(pfrom, headers, peerSentMax, maybeAnnouncement)

HeadersFrom(peers, announcements) == HeadersOf(peers, announcements, Batches)

UnconnectingFrom(peers, limit) ==
    /\ lastCall = NoCall
    /\ \E from \in peers, h \in Offer, bumpUnconnecting \in BOOLEAN :
            requestConnectHeaders(from, Header(h), bumpUnconnecting, limit)

HeadersMsg == HeadersFrom({1}, BOOLEAN)

FewUnconnectingMsg == UnconnectingFrom({1}, MaxUnconnecting)

BodyArrives == \E m \in inFlight : BlockReceived(m[1])

BodyFails == \E m \in inFlight : BlockFailed(m[1])

RequestTimesOut == \E m \in inFlight : InFlightTimeout(m[1])

\* Headers messages of one peer and direct fetch near the active tip
Init == InitWith(MainNew, 0)

Next ==
    \/ HandlerReturns
    \/ HeadersMsg
    \/ FewUnconnectingMsg
    \/ BodyArrives
    \/ BodyFails
    \/ RequestTimesOut

Spec == Init /\ [][Next]_vars

\* A long fork of headers without blocks: the walk's depth limit and the cap
DeepForks ==
    {MAX_BLOCKS_IN_TRANSIT_PER_PEER + 1, WALK_LIMIT - 1, WALK_LIMIT}

InitDeep == \E fork \in DeepForks : InitWith(0, fork)

\* headers messages of one header, as a block is announced
DeepHeadersMsg == HeadersOf({1}, BOOLEAN, BatchesUpTo(1))

NextDeep ==
    \/ HandlerReturns
    \/ DeepHeadersMsg
    \/ BodyArrives
    \/ RequestTimesOut

SpecDeep == InitDeep /\ [][NextDeep]_vars

\* Announcements of two peers
InitPeers == InitWith(MainNew, 0)

AnnouncementMsg == HeadersFrom(Peers, {TRUE})

NextPeers ==
    \/ HandlerReturns
    \/ AnnouncementMsg
    \/ BodyArrives
    \/ RequestTimesOut

SpecPeers == InitPeers /\ [][NextPeers]_vars

\* Unconnecting headers of one peer, between headers messages of both
UnconnectingLimit == 2 * MAX_UNCONNECTING_HEADERS + 1

InitUnc == InitWith(MainNew, 0)

UnconnectingMsg == UnconnectingFrom({1}, UnconnectingLimit)

PlainHeadersMsg == HeadersFrom(Peers, {FALSE})

NextUnc ==
    \/ HandlerReturns
    \/ UnconnectingMsg
    \/ PlainHeadersMsg

SpecUnc == InitUnc /\ [][NextUnc]_vars

\* Headers messages of one more header than elsewhere, no direct fetch
InitLong == InitWith(MainNew, 0)

LongHeadersMsg == HeadersOf({1}, {FALSE}, BatchesUpTo(MaxBatch + 1))

NextLong ==
    \/ HandlerReturns
    \/ LongHeadersMsg

SpecLong == InitLong /\ [][NextLong]_vars

\* ------------------------------------------------------- properties
\* vocabulary of the properties: they read the record of the latest
\* invocation (lastCall) and the state the invocation left behind
HashesOf(headers) == [i \in 1 .. Len(headers) |-> headers[i].hash]

Continuous(headers) ==
    \A i \in 2 .. Len(headers) : headers[i].hashPrevBlock = headers[i - 1].hash

\* ChainIndex accepts every header of the sequence when they are submitted
\* in order to a block index that starts as index
ChainIndexAccepts(headers, index) ==
    \A i \in 1 .. Len(headers) :
        AcceptBlockHeader(headers[i],
                          index \cup {headers[j].hash : j \in 1 .. (i - 1)}).ret

IsReport(e) == e.e = "Misbehaving"

IsGetData(e) == e.e = "GETDATA"

IsAvailability(e) == e.e = "UpdateBlockAvailability"

Reports(call) == SelectSeq(call.effects, IsReport)

GetDatas(call) == SelectSeq(call.effects, IsGetData)

InFlightBefore(call, hash) == \E p \in Peers : <<hash, p>> \in call.inFlightBefore

MarksOf(call) == {<<h, call.peer>> : h \in SeqToSet(call.marked)}

\* C1's case: a non-empty continuous batch that connects to the block index
\* and whose headers ChainIndex accepts
C1_Batch ==
    /\ lastCall.op = "headers"
    /\ Len(lastCall.headers) >= 1
    /\ lastCall.headers[1].hashPrevBlock \in lastCall.indexBefore
    /\ Continuous(lastCall.headers)
    /\ ChainIndexAccepts(lastCall.headers, lastCall.indexBefore)

\* C1: a continuous batch H1..Hn whose first header's predecessor is in the
\* block index and whose headers ChainIndex all accepts is committed whole:
\* no error is thrown, the node of Hn is returned, every header was
\* submitted and is in the block index, and no misbehavior is reported.
C1_ContiguousAcceptance ==
    C1_Batch =>
        /\ lastCall.threw = ""
        /\ lastCall.ret = lastCall.headers[Len(lastCall.headers)].hash
        /\ lastCall.submitted = HashesOf(lastCall.headers)
        /\ lastCall.accepted = HashesOf(lastCall.headers)
        /\ SeqToSet(HashesOf(lastCall.headers)) \subseteq mapBlockIndex
        /\ Reports(lastCall) = <<>>

C1_Witness ==
    /\ C1_Batch
    /\ Len(lastCall.headers) >= 2
    /\ SeqToSet(HashesOf(lastCall.headers)) \cap lastCall.indexBefore = {}
    /\ SeqToSet(HashesOf(lastCall.headers)) \subseteq mapBlockIndex
    /\ lastCall.ret = lastCall.headers[Len(lastCall.headers)].hash

\* C2's case: H1..Hk are continuous and accepted, H(k+1) does not follow Hk
C2_BreakAfter(k) ==
    /\ lastCall.op = "headers"
    /\ k >= 1
    /\ k < Len(lastCall.headers)
    /\ Continuous(SubSeq(lastCall.headers, 1, k))
    /\ ChainIndexAccepts(SubSeq(lastCall.headers, 1, k), lastCall.indexBefore)
    /\ lastCall.headers[k + 1].hashPrevBlock # lastCall.headers[k].hash

\* C2: when H1..Hk have been accepted and H(k+1) does not name Hk as its
\* predecessor, the invocation aborts with the non-continuous-sequence error,
\* reports exactly one misbehavior of 20 for the sending peer, submits
\* nothing from H(k+1) on, and leaves H1..Hk in the block index.
C2_BrokenContinuity ==
    \A k \in 1 .. Len(lastCall.headers) :
        C2_BreakAfter(k) =>
            /\ lastCall.threw = "non-continuous headers sequence"
            /\ Reports(lastCall) =
                   <<Misbehaving(lastCall.peer, 20, "non-continuous header sequence")>>
            /\ lastCall.submitted = HashesOf(SubSeq(lastCall.headers, 1, k))
            /\ \A i \in 1 .. k : lastCall.headers[i].hash \in mapBlockIndex

C2_Witness ==
    /\ C2_BreakAfter(1)
    /\ lastCall.headers[1].hash \notin lastCall.indexBefore
    /\ lastCall.headers[1].hash \in mapBlockIndex
    /\ lastCall.threw = "non-continuous headers sequence"

\* C3: an invocation that aborts on a header error does none of the later
\* stages: the unconnecting counter keeps its value, no availability update,
\* no getheaders, no window, no getdata and no in-flight mark is made; the
\* block index gains the accepted headers only and the one effect, if any,
\* is the misbehavior report.
C3_AbortDoesNothingMore ==
    (lastCall.op = "headers" /\ lastCall.threw # "") =>
        /\ unconnectingHeaders = lastCall.unconnectingBefore
        /\ inFlight = lastCall.inFlightBefore
        /\ mapBlockIndex = lastCall.indexBefore \cup SeqToSet(lastCall.accepted)
        /\ lastCall.ret = NoHash
        /\ ~lastCall.walked
        /\ lastCall.toFetch = <<>>
        /\ lastCall.asked = <<>>
        /\ lastCall.toGet = <<>>
        /\ lastCall.marked = <<>>
        /\ Reports(lastCall) = lastCall.effects
        /\ Len(lastCall.effects) <= 1

\* an announcement that aborts after it accepted a header with the work of
\* the tip or more, from a peer whose counter is not zero
C3_Witness ==
    /\ lastCall.op = "headers"
    /\ lastCall.threw # ""
    /\ lastCall.maybeAnnouncement
    /\ lastCall.peerSentMax
    /\ lastCall.unconnectingBefore[lastCall.peer] > 0
    /\ \E i \in 1 .. Len(lastCall.accepted) :
          /\ nChainWork(lastCall.accepted[i]) >= nChainWork(tip)
          /\ lastCall.accepted[i] \notin haveData
    /\ Len(lastCall.effects) = 1

\* C4's case: requestConnectHeaders was given a header whose predecessor is
\* not in the block index
C4_Unconnecting ==
    /\ lastCall.op = "connect"
    /\ lastCall.headers[1].hashPrevBlock \notin lastCall.indexBefore

\* C4: an unconnecting-header event returns true; counted, it adds exactly 1
\* to the peer's counter and reports misbehavior (20) exactly when the new
\* value is a multiple of 10, so n counted events since the last reset made
\* floor(n / 10) reports; uncounted, it changes no counter and reports
\* nothing.
C4_UnconnectingCounter ==
    /\ \A p \in Peers :
          /\ unconnectingHeaders[p] = sinceAccept[p]
          /\ reportsSinceAccept[p] = sinceAccept[p] \div 10
    /\ C4_Unconnecting =>
          /\ lastCall.retBool
          /\ lastCall.bumpUnconnecting =>
                /\ unconnectingHeaders =
                      [lastCall.unconnectingBefore EXCEPT ![lastCall.peer] = @ + 1]
                /\ Reports(lastCall) =
                      IF unconnectingHeaders[lastCall.peer] % 10 = 0
                      THEN <<Misbehaving(lastCall.peer, 20, "unconnecting-headers")>>
                      ELSE <<>>
          /\ ~lastCall.bumpUnconnecting =>
                /\ unconnectingHeaders = lastCall.unconnectingBefore
                /\ Reports(lastCall) = <<>>

C4_Witness ==
    /\ C4_Unconnecting
    /\ lastCall.bumpUnconnecting
    /\ sinceAccept[lastCall.peer] = 20
    /\ reportsSinceAccept[lastCall.peer] = 2
    /\ Reports(lastCall) # <<>>

\* C5: the window is computed, and blocks are asked for or marked in flight,
\* only when the invocation accepted a last header, the batch may be an
\* announcement, that header is valid to the header-tree level and its chain
\* work is at least the active tip's; a last header with less work than the
\* tip triggers no getdata and no mark.
C5_WorkGate ==
    (/\ lastCall.op = "headers"
     /\ \/ lastCall.walked
        \/ lastCall.asked # <<>>
        \/ lastCall.toGet # <<>>
        \/ lastCall.marked # <<>>
        \/ GetDatas(lastCall) # <<>>
        \/ inFlight # lastCall.inFlightBefore) =>
        /\ lastCall.threw = ""
        /\ lastCall.ret # NoHash
        /\ lastCall.maybeAnnouncement
        /\ IsValidTree(lastCall.ret)
        /\ nChainWork(lastCall.ret) >= nChainWork(tip)

\* an announcement whose last header has less work than the tip and whose
\* block is missing: nothing is fetched
C5_Witness ==
    /\ lastCall.op = "headers"
    /\ lastCall.threw = ""
    /\ lastCall.maybeAnnouncement
    /\ lastCall.ret # NoHash
    /\ nChainWork(lastCall.ret) < nChainWork(tip)
    /\ lastCall.ret \notin haveData
    /\ ~InFlightBefore(lastCall, lastCall.ret)
    /\ ~lastCall.walked
    /\ GetDatas(lastCall) = <<>>
    /\ inFlight = lastCall.inFlightBefore

\* the heights of the candidate's ancestors (itself included) that are not
\* on the active chain: the gap between the candidate and the chain
GapHeights(h) == {k \in 0 .. Height(h) : ~Contains(AncestorAt(h, k))}

GapSize(h) == Cardinality(GapHeights(h))

\* the n nodes of the gap nearest to the active chain
OldestOfGap(h, n) ==
    {AncestorAt(h, k) : k \in {g \in GapHeights(h) : g <= Height(h) - GapSize(h) + n}}

\* no node of the gap had data or was in flight when the walk was made
GapUntouched(call) ==
    \A k \in GapHeights(call.ret) :
        /\ AncestorAt(call.ret, k) \notin haveData
        /\ ~InFlightBefore(call, AncestorAt(call.ret, k))

Fetching == lastCall.op = "headers" /\ lastCall.walked

\* C6: when the walk back from the candidate finds no node of the active
\* chain among the first 144 nodes it looks at, the window is empty whatever
\* blocks are missing on the way, and nothing is asked for or marked.
C6_DepthLimit ==
    (Fetching /\ GapSize(lastCall.ret) >= 144) =>
        /\ lastCall.toFetch = <<>>
        /\ lastCall.asked = <<>>
        /\ lastCall.toGet = <<>>
        /\ GetDatas(lastCall) = <<>>
        /\ inFlight = lastCall.inFlightBefore

\* a candidate more than 144 nodes away from the chain, none of them with data
C6_Witness ==
    /\ Fetching
    /\ GapSize(lastCall.ret) > 144
    /\ GapUntouched(lastCall)
    /\ lastCall.toFetch = <<>>
    /\ GetDatas(lastCall) = <<>>

\* C7 as stated: a gap of K > MAX_BLOCKS_IN_TRANSIT_PER_PEER nodes, none with
\* data or in flight, gives a window of exactly the cap's number of entries,
\* the oldest ones, whatever K is.
C7_AnyGapFillsWindow ==
    (/\ Fetching
     /\ GapSize(lastCall.ret) > MAX_BLOCKS_IN_TRANSIT_PER_PEER
     /\ GapUntouched(lastCall)) =>
        /\ Len(lastCall.toFetch) = MAX_BLOCKS_IN_TRANSIT_PER_PEER
        /\ SeqToSet(lastCall.toFetch) =
               OldestOfGap(lastCall.ret, MAX_BLOCKS_IN_TRANSIT_PER_PEER)

\* C7: the window never has more entries than the cap; a gap of K nodes,
\* none with data or in flight, with cap < K < 144, gives a window of exactly
\* the cap's number of entries: the gap's nodes nearest to the active chain.
C7_WindowTrimming ==
    Fetching =>
        /\ Len(lastCall.toFetch) <= MAX_BLOCKS_IN_TRANSIT_PER_PEER
        /\ (/\ GapSize(lastCall.ret) > MAX_BLOCKS_IN_TRANSIT_PER_PEER
            /\ GapSize(lastCall.ret) < 144
            /\ GapUntouched(lastCall)) =>
              /\ Len(lastCall.toFetch) = MAX_BLOCKS_IN_TRANSIT_PER_PEER
              /\ SeqToSet(lastCall.toFetch) =
                     OldestOfGap(lastCall.ret, MAX_BLOCKS_IN_TRANSIT_PER_PEER)

C7_Witness ==
    /\ Fetching
    /\ GapSize(lastCall.ret) = 143
    /\ GapUntouched(lastCall)
    /\ Len(lastCall.toFetch) = MAX_BLOCKS_IN_TRANSIT_PER_PEER
    /\ \A i \in 1 .. Len(lastCall.toFetch) :
          Height(lastCall.toFetch[i]) <= MAX_BLOCKS_IN_TRANSIT_PER_PEER

\* the k-th entry of the window counted from the active chain
NearestFirst(window, k) ==
    CHOOSE b \in SeqToSet(window) :
        Cardinality({a \in SeqToSet(window) : Height(a) < Height(b)}) = k - 1

\* C8: with the window taken nearest-to-the-chain first, the blocks asked for
\* are a prefix of it and are the blocks marked in flight, in the same order;
\* the policy is asked about that prefix and at most the one entry after it
\* (the first it declines), and nothing stops the loop but a decline.
C8_AdmissionPrefix ==
    Fetching =>
        /\ Len(lastCall.toGet) <= Len(lastCall.toFetch)
        /\ \A k \in 1 .. Len(lastCall.toGet) :
              lastCall.toGet[k] = NearestFirst(lastCall.toFetch, k)
        /\ lastCall.marked = lastCall.toGet
        /\ inFlight = lastCall.inFlightBefore \cup MarksOf(lastCall)
        /\ GetDatas(lastCall) =
              IF lastCall.toGet = <<>> THEN <<>>
              ELSE <<PushGetData(lastCall.peer, lastCall.toGet)>>
        /\ Len(lastCall.asked) <= Len(lastCall.toFetch)
        /\ Len(lastCall.asked) <= Len(lastCall.toGet) + 1
        /\ \A k \in 1 .. Len(lastCall.asked) :
              lastCall.asked[k] = NearestFirst(lastCall.toFetch, k)
        /\ Len(lastCall.asked) = Len(lastCall.toGet) =>
              Len(lastCall.toGet) = Len(lastCall.toFetch)

\* the policy declined an entry that is not the window's last one
C8_Witness ==
    /\ Fetching
    /\ Len(lastCall.asked) = Len(lastCall.toGet) + 1
    /\ Len(lastCall.asked) < Len(lastCall.toFetch)
    /\ lastCall.marked = lastCall.toGet

\* C9's case: an announcement of a continuous batch of valid headers that
\* extends the active tip, no longer than the cap, none of its blocks with
\* data or in flight, and a policy that declined nothing it was asked about
C9_Scenario ==
    /\ lastCall.op = "headers"
    /\ lastCall.maybeAnnouncement
    /\ Len(lastCall.headers) >= 1
    /\ Len(lastCall.headers) <= MAX_BLOCKS_IN_TRANSIT_PER_PEER
    /\ lastCall.headers[1].hashPrevBlock = tip
    /\ Continuous(lastCall.headers)
    /\ ChainIndexAccepts(lastCall.headers, lastCall.indexBefore)
    /\ \A i \in 1 .. Len(lastCall.headers) :
          /\ lastCall.headers[i].hash \notin haveData
          /\ ~InFlightBefore(lastCall, lastCall.headers[i].hash)
    /\ Len(lastCall.asked) = Len(lastCall.toGet)

\* C9: in that case all the headers are accepted, the peer's availability is
\* updated to the last one, exactly one getdata is sent whose inventory is
\* the batch's hashes from the oldest to the newest, and exactly those blocks
\* are marked in flight for the peer.
C9_EndToEnd ==
    C9_Scenario =>
        /\ lastCall.threw = ""
        /\ lastCall.accepted = HashesOf(lastCall.headers)
        /\ lastCall.ret = lastCall.headers[Len(lastCall.headers)].hash
        /\ SelectSeq(lastCall.effects, IsAvailability) =
              <<UpdateBlockAvailability(lastCall.peer, lastCall.ret)>>
        /\ GetDatas(lastCall) =
              <<PushGetData(lastCall.peer, HashesOf(lastCall.headers))>>
        /\ lastCall.marked = HashesOf(lastCall.headers)
        /\ inFlight = lastCall.inFlightBefore \cup
              {<<h, lastCall.peer>> : h \in SeqToSet(HashesOf(lastCall.headers))}

C9_Witness ==
    /\ C9_Scenario
    /\ Len(lastCall.headers) >= 2
    /\ lastCall.toGet = HashesOf(lastCall.headers)
    /\ lastCall.headers[1].hash \notin lastCall.indexBefore

\* C10: an invocation never asks for, or marks, a block that was in flight
\* when it started, so that no block is in flight from two peers at once.
C10_NoDoubleScheduling ==
    /\ lastCall.op = "headers" =>
          \A h \in SeqToSet(lastCall.toFetch) \cup SeqToSet(lastCall.toGet)
                   \cup SeqToSet(lastCall.marked) :
              ~InFlightBefore(lastCall, h)
    /\ \A m1 \in inFlight, m2 \in inFlight : m1[1] = m2[1] => m1 = m2

\* a second peer announces a block that is in flight from the first one
C10_Witness ==
    /\ Fetching
    /\ lastCall.peer = 2
    /\ \E i \in 1 .. Len(lastCall.headers) :
          /\ <<lastCall.headers[i].hash, 1>> \in lastCall.inFlightBefore
          /\ <<lastCall.headers[i].hash, 1>> \in inFlight
          /\ <<lastCall.headers[i].hash, 2>> \notin inFlight

IsAncestorOrSelf(a, h) == AncestorAt(h, Height(a)) = a

\* the nodes of the gap that had no data and were not in flight when the
\* walk was made
MissingOfGap(call) ==
    {AncestorAt(call.ret, k) : k \in
        {g \in GapHeights(call.ret) :
            /\ AncestorAt(call.ret, g) \notin haveData
            /\ ~InFlightBefore(call, AncestorAt(call.ret, g))}}

\* the n nodes of S nearest to the genesis block (all of S when it has fewer)
RECURSIVE LowestOf(_, _)
LowestOf(S, n) ==
    IF n = 0 \/ S = {} THEN {}
    ELSE LET low == CHOOSE b \in S : \A a \in S : Height(b) <= Height(a)
         IN  {low} \cup LowestOf(S \ {low}, n - 1)

\* C11: every entry of the window is the walked tip or an ancestor of it, is
\* off the active chain, has no block data and was not in flight when the
\* walk was made; no hash is in the window twice; and a node with data or in
\* flight is passed over without stopping the walk: when the chain is met
\* within the depth limit the window is made of the missing nodes of the
\* whole gap (those nearest to the chain, up to the cap).
C11_WindowMembers ==
    Fetching =>
        /\ \A i \in 1 .. Len(lastCall.toFetch) :
              /\ IsAncestorOrSelf(lastCall.toFetch[i], lastCall.ret)
              /\ ~Contains(lastCall.toFetch[i])
              /\ lastCall.toFetch[i] \notin haveData
              /\ ~InFlightBefore(lastCall, lastCall.toFetch[i])
        /\ \A i \in 1 .. Len(lastCall.toFetch), j \in 1 .. Len(lastCall.toFetch) :
              lastCall.toFetch[i] = lastCall.toFetch[j] => i = j
        /\ GapSize(lastCall.ret) < 144 =>
              SeqToSet(lastCall.toFetch) =
                  LowestOf(MissingOfGap(lastCall), MAX_BLOCKS_IN_TRANSIT_PER_PEER)

\* the walk passed a node with data and a node in flight, and took a node
\* beyond each of them
C11_Witness ==
    /\ Fetching
    /\ \E k \in GapHeights(lastCall.ret), i \in 1 .. Len(lastCall.toFetch) :
          /\ AncestorAt(lastCall.ret, k) \in haveData
          /\ Height(lastCall.toFetch[i]) < k
    /\ \E k \in GapHeights(lastCall.ret), i \in 1 .. Len(lastCall.toFetch) :
          /\ InFlightBefore(lastCall, AncestorAt(lastCall.ret, k))
          /\ Height(lastCall.toFetch[i]) < k

\* what ChainIndex answers for the j-th header of the batch when the headers
\* before it were accepted
AnswerAt(call, j) ==
    AcceptBlockHeader(call.headers[j],
                      call.indexBefore \cup
                          {call.headers[i].hash : i \in 1 .. (j - 1)})

\* H1..H(j-1) are continuous and accepted, Hj follows them and ChainIndex
\* rejects it as invalid with a positive penalty
C12_RejectedAt(j) ==
    /\ lastCall.op = "headers"
    /\ j >= 1
    /\ j <= Len(lastCall.headers)
    /\ Continuous(SubSeq(lastCall.headers, 1, j))
    /\ ChainIndexAccepts(SubSeq(lastCall.headers, 1, j - 1), lastCall.indexBefore)
    /\ ~AnswerAt(lastCall, j).ret
    /\ AnswerAt(lastCall, j).invalid
    /\ AnswerAt(lastCall, j).nDoS > 0

\* C12 as stated: the report made for a header rejected with a positive
\* penalty is one of 20 points.
C12_ReportsTwenty ==
    \A j \in 1 .. Len(lastCall.headers) :
        C12_RejectedAt(j) =>
            /\ lastCall.threw = "invalid header received"
            /\ Reports(lastCall) = <<Misbehaving(lastCall.peer, 20, "invalid header")>>

\* C12: when ChainIndex rejects a header of the batch with a positive
\* penalty, acceptHeaders reports exactly one misbehavior of the sending
\* peer, of the penalty ChainIndex gave and with reason "invalid header",
\* aborts with the invalid-header error, submits nothing after that header,
\* and leaves the headers accepted before it in the block index.
C12_InvalidHeader ==
    \A j \in 1 .. Len(lastCall.headers) :
        C12_RejectedAt(j) =>
            /\ lastCall.threw = "invalid header received"
            /\ Reports(lastCall) =
                  <<Misbehaving(lastCall.peer, AnswerAt(lastCall, j).nDoS,
                                "invalid header")>>
            /\ lastCall.submitted = HashesOf(SubSeq(lastCall.headers, 1, j))
            /\ lastCall.accepted = HashesOf(SubSeq(lastCall.headers, 1, j - 1))
            /\ mapBlockIndex = lastCall.indexBefore \cup SeqToSet(lastCall.accepted)

\* a new header is committed and the next one is rejected with a penalty
C12_Witness ==
    /\ C12_RejectedAt(2)
    /\ lastCall.headers[1].hash \notin lastCall.indexBefore
    /\ lastCall.headers[1].hash \in mapBlockIndex
    /\ lastCall.headers[2].hash \notin mapBlockIndex
    /\ Len(Reports(lastCall)) = 1
    /\ Reports(lastCall)[1].pts # 20

IsGetHeaders(e) == e.e = "GETHEADERS"

GetHeaders(call) == SelectSeq(call.effects, IsGetHeaders)

Availabilities(call) == SelectSeq(call.effects, IsAvailability)

\* C13 as stated: the locator of the getheaders request of an unconnecting
\* header is built from the peer's best known header.
C13_LocatorFromPeerBest ==
    C4_Unconnecting =>
        /\ Len(GetHeaders(lastCall)) = 1
        /\ GetHeaders(lastCall)[1].hash = pindexBestKnownBlock[lastCall.peer]

\* C13: for a header whose predecessor is not in the block index the handler
\* updates the peer's block availability with the header's hash and sends
\* exactly one getheaders request to that peer, whose locator is built from
\* the best header the node knows (pindexBestHeader), whatever the peer's
\* own best known block is.
C13_ConnectRequest ==
    C4_Unconnecting =>
        /\ Availabilities(lastCall) =
              <<UpdateBlockAvailability(lastCall.peer, lastCall.headers[1].hash)>>
        /\ GetHeaders(lastCall) =
              <<PushGetHeaders(lastCall.peer, pindexBestHeader)>>
        /\ GetDatas(lastCall) = <<>>

\* the peer's best known block is known and is not the node's best header
C13_Witness ==
    /\ C4_Unconnecting
    /\ pindexBestKnownBlock[lastCall.peer] # NoHash
    /\ pindexBestKnownBlock[lastCall.peer] # pindexBestHeader
    /\ Len(GetHeaders(lastCall)) = 1
    /\ GetHeaders(lastCall)[1].hash = pindexBestHeader

\* the node had data or was in flight when the walk was made
Skipped(call, h) == h \in haveData \/ InFlightBefore(call, h)

\* C14 as stated: of every two adjacent entries of the window one is the
\* parent of the other.
C14_WindowContiguous ==
    Fetching =>
        \A i \in 1 .. (Len(lastCall.toFetch) - 1) :
            \/ Parent(lastCall.toFetch[i]) = lastCall.toFetch[i + 1]
            \/ Parent(lastCall.toFetch[i + 1]) = lastCall.toFetch[i]

\* C14: the window follows the walked branch: each entry is a proper
\* ancestor of the entry before it, and every node of the branch that lies
\* between two adjacent entries had data or was in flight; so the window is
\* a contiguous run when no node of the gap has data or is in flight.
C14_WindowAlongBranch ==
    Fetching =>
        /\ \A i \in 1 .. (Len(lastCall.toFetch) - 1) :
              /\ Height(lastCall.toFetch[i + 1]) < Height(lastCall.toFetch[i])
              /\ IsAncestorOrSelf(lastCall.toFetch[i + 1], lastCall.toFetch[i])
              /\ \A k \in (Height(lastCall.toFetch[i + 1]) + 1) ..
                          (Height(lastCall.toFetch[i]) - 1) :
                    Skipped(lastCall, AncestorAt(lastCall.toFetch[i], k))
        /\ GapUntouched(lastCall) =>
              \A i \in 1 .. (Len(lastCall.toFetch) - 1) :
                  Parent(lastCall.toFetch[i]) = lastCall.toFetch[i + 1]

\* a window with a skipped node between two of its entries
C14_Witness ==
    /\ Fetching
    /\ \E i \in 1 .. (Len(lastCall.toFetch) - 1) :
          /\ Parent(lastCall.toFetch[i]) # lastCall.toFetch[i + 1]
          /\ Skipped(lastCall, Parent(lastCall.toFetch[i]))

\* the last header ChainIndex accepted in the invocation, if any
LastAccepted(call) ==
    IF call.accepted = <<>> THEN NoHash ELSE call.accepted[Len(call.accepted)]

\* C15: an invocation that does not abort returns the last accepted node
\* (none when no header was accepted) and makes these calls, in this order
\* and no others: the availability update of the peer to the last accepted
\* hash, iff a header was accepted; one getheaders to the peer with the
\* locator of the last accepted node, iff peerSentMax and a header was
\* accepted; the in-flight marks of the blocks asked for; one getdata with
\* those blocks, iff there are any; and the check of the block index, once
\* and last.
C15_EffectOrder ==
    (lastCall.op = "headers" /\ lastCall.threw = "") =>
        /\ lastCall.ret = LastAccepted(lastCall)
        /\ lastCall.effects =
              (IF LastAccepted(lastCall) # NoHash
               THEN <<UpdateBlockAvailability(lastCall.peer, LastAccepted(lastCall))>>
               ELSE <<>>)
              \o (IF lastCall.peerSentMax /\ LastAccepted(lastCall) # NoHash
                  THEN <<PushGetHeaders(lastCall.peer, LastAccepted(lastCall))>>
                  ELSE <<>>)
              \o [i \in 1 .. Len(lastCall.marked) |->
                     MarkedInFlight(lastCall.peer, lastCall.marked[i])]
              \o (IF lastCall.toGet # <<>>
                  THEN <<PushGetData(lastCall.peer, lastCall.toGet)>>
                  ELSE <<>>)
              \o <<CheckBlockIndexEff>>

\* an invocation that makes all four kinds of call
C15_Witness ==
    /\ lastCall.op = "headers"
    /\ lastCall.threw = ""
    /\ lastCall.peerSentMax
    /\ lastCall.toGet # <<>>
    /\ Len(Availabilities(lastCall)) = 1
    /\ Len(GetHeaders(lastCall)) = 1
    /\ Len(GetDatas(lastCall)) = 1
    /\ lastCall.effects[Len(lastCall.effects)] = CheckBlockIndexEff

\* C16's case: requestConnectHeaders was given a header whose predecessor is
\* in the block index
C16_Connecting ==
    /\ lastCall.op = "connect"
    /\ lastCall.headers[1].hashPrevBlock \in lastCall.indexBefore

\* C16: for a header whose predecessor is in the block index the handler
\* returns false and does nothing, counted or not: it makes no call (no
\* availability update, no getheaders, no report) and the counters, the
\* block index and the in-flight index are as they were.
C16_ConnectingNoOp ==
    C16_Connecting =>
        /\ ~lastCall.retBool
        /\ lastCall.effects = <<>>
        /\ unconnectingHeaders = lastCall.unconnectingBefore
        /\ mapBlockIndex = lastCall.indexBefore
        /\ inFlight = lastCall.inFlightBefore

\* a connecting header handled as counted when one more counted event would
\* have been reported
C16_Witness ==
    /\ C16_Connecting
    /\ lastCall.bumpUnconnecting
    /\ lastCall.headers[1].hash \notin mapBlockIndex
    /\ lastCall.unconnectingBefore[lastCall.peer] = 9
    /\ unconnectingHeaders[lastCall.peer] = 9
    /\ ~lastCall.retBool

IsUnconnectingReport(e) == e.e = "Misbehaving" /\ e.txt = "unconnecting-headers"

\* C17: a headers invocation that does not abort leaves the peer's
\* unconnecting counter at zero (the other peers' counters as they were),
\* also when the batch is empty; one that aborts leaves every counter as it
\* was; so an unconnecting-headers report is made only by a counted event
\* that brings the number of counted events since the peer's last
\* non-aborting headers invocation to 10 or a multiple of it, and a peer
\* with fewer than 10 such events since then has no report since then.
C17_CounterReset ==
    /\ (lastCall.op = "headers" /\ lastCall.threw = "") =>
          unconnectingHeaders =
              [lastCall.unconnectingBefore EXCEPT ![lastCall.peer] = 0]
    /\ (lastCall.op = "headers" /\ lastCall.threw # "") =>
          unconnectingHeaders = lastCall.unconnectingBefore
    /\ SelectSeq(lastCall.effects, IsUnconnectingReport) # <<>> =>
          /\ lastCall.op = "connect"
          /\ lastCall.bumpUnconnecting
          /\ sinceAccept[lastCall.peer] >= 10
          /\ sinceAccept[lastCall.peer] % 10 = 0
    /\ \A p \in Peers : sinceAccept[p] < 10 => reportsSinceAccept[p] = 0

\* an empty batch resets a counter that stood one event before a report
C17_Witness ==
    /\ lastCall.op = "headers"
    /\ lastCall.threw = ""
    /\ lastCall.headers = <<>>
    /\ lastCall.unconnectingBefore[lastCall.peer] = 9
    /\ unconnectingHeaders[lastCall.peer] = 0

\* C18: the walk ends, and it looks at 144 nodes at most: the counter, which
\* counts the walked tip first and the node found on the active chain too,
\* stops at 145 without looking at a 145th node.  A tip with at most 143
\* nodes off the active chain (itself included) meets the chain within the
\* limit and gets the window of its missing blocks, trimmed to the cap; a tip
\* with 144 or more gets an empty window.
C18_WalkBound ==
    Fetching =>
        /\ lastCall.walkDone
        /\ lastCall.walkCount <= 145
        /\ GapSize(lastCall.ret) <= 143 =>
              /\ lastCall.walkCount = GapSize(lastCall.ret) + 1
              /\ SeqToSet(lastCall.toFetch) =
                    LowestOf(MissingOfGap(lastCall), MAX_BLOCKS_IN_TRANSIT_PER_PEER)
              /\ Len(lastCall.toFetch) =
                    Cardinality(LowestOf(MissingOfGap(lastCall),
                                         MAX_BLOCKS_IN_TRANSIT_PER_PEER))
        /\ GapSize(lastCall.ret) >= 144 =>
              /\ lastCall.walkCount = 145
              /\ lastCall.toFetch = <<>>

\* the node of the active chain is the 144th node looked at
C18_Witness ==
    /\ Fetching
    /\ GapSize(lastCall.ret) = 143
    /\ lastCall.walkCount = 144
    /\ lastCall.walkDone
    /\ lastCall.toFetch # <<>>

\* H1..H(j-1) are continuous and accepted, Hj follows them and ChainIndex
\* rejects it as invalid without a penalty
C19_RejectedFreeAt(j) ==
    /\ lastCall.op = "headers"
    /\ j >= 1
    /\ j <= Len(lastCall.headers)
    /\ Continuous(SubSeq(lastCall.headers, 1, j))
    /\ ChainIndexAccepts(SubSeq(lastCall.headers, 1, j - 1), lastCall.indexBefore)
    /\ ~AnswerAt(lastCall, j).ret
    /\ AnswerAt(lastCall, j).invalid
    /\ AnswerAt(lastCall, j).nDoS = 0

\* the same, with an acceptance of Hj that fails without marking it invalid
C19_FailedAt(j) ==
    /\ lastCall.op = "headers"
    /\ j >= 1
    /\ j <= Len(lastCall.headers)
    /\ Continuous(SubSeq(lastCall.headers, 1, j))
    /\ ChainIndexAccepts(SubSeq(lastCall.headers, 1, j - 1), lastCall.indexBefore)
    /\ ~AnswerAt(lastCall, j).ret
    /\ ~AnswerAt(lastCall, j).invalid

\* the node accepted last before Hj
LastBefore(call, j) == IF j = 1 THEN NoHash ELSE call.headers[j - 1].hash

\* C19: a header rejected as invalid with penalty 0 aborts the batch with
\* the invalid-header error and without a report.  A header whose acceptance
\* fails without marking it invalid neither aborts nor reports: when it is
\* the last header the invocation returns the node accepted before it; when
\* another header follows, that one is submitted if it names the node
\* accepted last as its predecessor (or no node was accepted yet), and else
\* aborts the batch as non-continuous.
C19_SoftFailures ==
    \A j \in 1 .. Len(lastCall.headers) :
        /\ C19_RejectedFreeAt(j) =>
              /\ lastCall.threw = "invalid header received"
              /\ Reports(lastCall) = <<>>
              /\ lastCall.submitted = HashesOf(SubSeq(lastCall.headers, 1, j))
        /\ C19_FailedAt(j) =>
              /\ Len(lastCall.submitted) >= j
              /\ lastCall.submitted[j] = lastCall.headers[j].hash
              /\ lastCall.headers[j].hash \notin SeqToSet(lastCall.accepted)
              /\ j = Len(lastCall.headers) =>
                    /\ lastCall.threw = ""
                    /\ Reports(lastCall) = <<>>
                    /\ lastCall.ret = LastBefore(lastCall, j)
              /\ j < Len(lastCall.headers) =>
                    IF /\ LastBefore(lastCall, j) # NoHash
                       /\ lastCall.headers[j + 1].hashPrevBlock # LastBefore(lastCall, j)
                    THEN /\ lastCall.threw = "non-continuous headers sequence"
                         /\ Len(lastCall.submitted) = j
                         /\ Len(Reports(lastCall)) = 1
                    ELSE /\ Len(lastCall.submitted) >= j + 1
                         /\ lastCall.submitted[j + 1] = lastCall.headers[j + 1].hash

\* after an accepted header and a failed one, a third header that names the
\* accepted one as its predecessor is submitted
C19_Witness ==
    /\ C19_FailedAt(2)
    /\ Len(lastCall.headers) >= 3
    /\ lastCall.headers[3].hashPrevBlock = lastCall.headers[1].hash
    /\ Len(lastCall.submitted) >= 3
    /\ lastCall.accepted[1] = lastCall.headers[1].hash
    /\ Reports(lastCall) = <<>>

\* C20 as stated: the window's entries go from the one nearest to the active
\* chain (first) to the one nearest to the walked tip (last).
C20_WindowChainFirst ==
    Fetching =>
        \A i \in 1 .. Len(lastCall.toFetch), j \in 1 .. Len(lastCall.toFetch) :
            i < j => Height(lastCall.toFetch[i]) < Height(lastCall.toFetch[j])

\* C20: the vector findMissingBlocks returns goes from the entry nearest to
\* the walked tip (first) to the entry nearest to the active chain (last);
\* suggestDownload reads it backwards, so the policy is asked, and the
\* blocks are asked for, nearest to the active chain first.
C20_WindowTipFirst ==
    Fetching =>
        /\ \A i \in 1 .. Len(lastCall.toFetch), j \in 1 .. Len(lastCall.toFetch) :
              i < j => Height(lastCall.toFetch[i]) > Height(lastCall.toFetch[j])
        /\ \A i \in 1 .. Len(lastCall.asked), j \in 1 .. Len(lastCall.asked) :
              i < j => Height(lastCall.asked[i]) < Height(lastCall.asked[j])
        /\ \A i \in 1 .. Len(lastCall.toGet), j \in 1 .. Len(lastCall.toGet) :
              i < j => Height(lastCall.toGet[i]) < Height(lastCall.toGet[j])

\* a window of two entries or more, all of them asked for
C20_Witness ==
    /\ Fetching
    /\ Len(lastCall.toFetch) >= 2
    /\ Height(lastCall.toFetch[1]) > Height(lastCall.toFetch[Len(lastCall.toFetch)])
    /\ Len(lastCall.toGet) = Len(lastCall.toFetch)
    /\ lastCall.toGet[1] = lastCall.toFetch[Len(lastCall.toFetch)]

====
